---- MODULE Spec2Model ----
(***************************************************************************)
(* Model of modules/prenet.py: the Tacotron2 Encoder (embedding, stacked   *)
(* 1-D convolution blocks, bidirectional LSTM over packed sequences) and   *)
(* the decoder Prenet (affine + ReLU layers with always-on dropout).       *)
(*                                                                         *)
(* Tensors are nested sequences of integers.  Floating point arithmetic is *)
(* replaced by integer arithmetic (division is floor division), the LSTM   *)
(* cell by a saturating integer recurrence with the same data              *)
(* dependencies, and a random draw (weight initialisation, dropout mask)   *)
(* by a value computed from a draw number chosen nondeterministically.     *)
(* Every tensor operation returns a record [ok, v]: ok = FALSE stands for  *)
(* the exception the tensor library raises (shape or contract violation).  *)
(***************************************************************************)
EXTENDS Integers, Sequences, FiniteSets, TLC

\* ------------------------------------------------------------------ bounds
MaxT == 2          \* longest padded id sequence (Tmax) given to forward
MaxTracked == 1    \* cap on BatchNorm's num_batches_tracked counter
MaxConcTracked == 2 \* the same cap where two calls run concurrently
MaxUpdates == 1    \* cap on the number of external gradient updates

BatchSizes == {1, 2}
Ids == {0, 1}                  \* symbol ids fed to forward (0 is the pad value)
Draws == {0, 1}                \* random draws (initialisation, dropout masks)
EmbedDims == {1, 2}
ConvLayers == {0, 1, 2}
ConvChans == {1, 2}
ConvFilts == {1, 2, 3}
LstmLayers == {0, 1}
LstmUnits == {2, 3}
DropoutRates == {50}           \* percent; the constructor's default is 0.5
PrenetDims == {1, 2}
PrenetLayers == {0, 1, 2}
PrenetRates == {0, 50}

\* ----------------------------------------------------------- tensor basics
None == <<>>

Err == [ok |-> FALSE, v |-> <<>>]
Ok(x) == [ok |-> TRUE, v |-> x]

RECURSIVE Sum(_)
Sum(s) == IF s = <<>> THEN 0 ELSE s[1] + Sum(Tail(s))

Dot(a, b) == Sum([i \in 1..Len(a) |-> a[i] * b[i]])

Max2(a, b) == IF a >= b THEN a ELSE b
Min2(a, b) == IF a <= b THEN a ELSE b

Isqrt(v) == CHOOSE r \in 0..v : r * r <= v /\ (r + 1) * (r + 1) > v

Zeros(n) == [i \in 1..n |-> 0]

\* The element of a one-element set.
Only(S) == CHOOSE x \in S : TRUE

\* A drawn weight in {-1, 0, 1}: the k-th number of random stream `draw'.
Rand(draw, k) == ((draw + k) % 3) - 1

\* x.transpose(1, 2) of a rank-3 tensor (B, M, N) -> (B, N, M).
Transpose12(x) ==
    [b \in 1..Len(x) |->
        [n \in 1..Len(x[b][1]) |->
            [m \in 1..Len(x[b]) |-> x[b][m][n]]]]

\* ------------------------------------------------------------ torch layers
\* torch.nn.Embedding(idim, embed_dim, padding_idx): a drawn table whose
\* padding_idx row is filled with zeros.
EmbeddingNoPad(idim, embed_dim, padding_idx, draw) ==
    [i \in 1..idim |-> [c \in 1..embed_dim |-> Rand(draw, 2 * i + c) + 2]]

Embedding(idim, embed_dim, padding_idx, draw) ==
    [i \in 1..idim |->
        [c \in 1..embed_dim |->
            IF i = padding_idx + 1 THEN 0 ELSE Rand(draw, 2 * i + c) + 2]]

\* self.embed(xs): row lookup, ids are 0-based; an id outside the table raises.
EmbedLookup(weight, xs) ==
    IF \E b \in 1..Len(xs) : \E t \in 1..Len(xs[b]) :
           xs[b][t] < 0 \/ xs[b][t] >= Len(weight)
    THEN Err
    ELSE Ok([b \in 1..Len(xs) |-> [t \in 1..Len(xs[b]) |-> weight[xs[b][t] + 1]]])

\* torch.nn.Conv1d(ichans, ochans, filts, stride=1, padding, bias=False) weight
ConvWeight(ichans, ochans, filts, draw) ==
    [o \in 1..ochans |-> [i \in 1..ichans |-> [k \in 1..filts |->
        Rand(draw, o + 2 * i + k)]]]

\* xavier_uniform_(m.weight, gain): a fresh draw of the same shape.
XavierWeight(w, draw) ==
    [o \in 1..Len(w) |-> [i \in 1..Len(w[o]) |-> [k \in 1..Len(w[o][i]) |->
        Rand(draw + 1, 2 * o + i + k)]]]

\* Output length of a stride-1 convolution over T steps.
ConvOutLen(T, filts, padding) == T + 2 * padding - filts + 1

\* Conv1d forward on a channel-first tensor x (B, Cin, T).
Conv1d(w, padding, x) ==
    LET Cin == Len(x[1])
        T == Len(x[1][1])
        K == Len(w[1][1])
        Tout == ConvOutLen(T, K, padding)
        At(b, i, j) == IF j >= 1 /\ j <= T THEN x[b][i][j] ELSE 0
    IN  IF Cin # Len(w[1]) \/ Tout < 1
        THEN Err
        ELSE Ok([b \in 1..Len(x) |-> [o \in 1..Len(w) |-> [t \in 1..Tout |->
                Sum([i \in 1..Cin |->
                    Sum([k \in 1..K |-> w[o][i][k] * At(b, i, t + k - 1 - padding)])])]]])

\* Per-channel batch statistics of x (B, C, T).
ChanVals(x, c) ==
    LET B == Len(x)
        T == Len(x[1][1])
    IN  [n \in 1..(B * T) |-> x[((n - 1) \div T) + 1][c][((n - 1) % T) + 1]]

BatchMean(x, c) == Sum(ChanVals(x, c)) \div Len(ChanVals(x, c))

BatchSqDev(x, c) ==
    LET vs == ChanVals(x, c)
        m == BatchMean(x, c)
    IN  Sum([n \in 1..Len(vs) |-> (vs[n] - m) * (vs[n] - m)])

\* torch.nn.BatchNorm1d(C): running statistics and their counter.
BatchNormNew(C) ==
    [kind |-> "BatchNorm1d", running_mean |-> Zeros(C), running_var |-> [c \in 1..C |-> 1],
     num_batches_tracked |-> 0]

\* BatchNorm1d.forward.  Returns [ok, v, bn]: bn is the module state after
\* the call.  In training mode the counter is incremented first, then the
\* batch statistics normalise x and are blended (momentum 1/10) into the
\* running statistics; in evaluation mode the running statistics normalise x.
BatchNorm1d(bn, training, x) ==
    LET C == Len(x[1])
        N == Len(x) * Len(x[1][1])
        counted == [bn EXCEPT !.num_batches_tracked = @ + 1]
        Norm(mean, var) ==
            [b \in 1..Len(x) |-> [c \in 1..C |-> [t \in 1..Len(x[b][c]) |->
                (x[b][c][t] - mean[c]) \div (1 + Isqrt(var[c]))]]]
    IN  IF C # Len(bn.running_mean)
        THEN [ok |-> FALSE, v |-> <<>>, bn |-> bn]
        ELSE IF ~training
        THEN [ok |-> TRUE, v |-> Norm(bn.running_mean, bn.running_var), bn |-> bn]
        ELSE IF N <= 1
        THEN [ok |-> FALSE, v |-> <<>>, bn |-> counted]
        ELSE LET mean == [c \in 1..C |-> BatchMean(x, c)]
                 var == [c \in 1..C |-> BatchSqDev(x, c) \div N]
                 uvar == [c \in 1..C |-> BatchSqDev(x, c) \div (N - 1)]
             IN  [ok |-> TRUE, v |-> Norm(mean, var),
                  bn |-> [counted EXCEPT
                      !.running_mean = [c \in 1..C |-> @[c] + ((mean[c] - @[c]) \div 10)],
                      !.running_var = [c \in 1..C |-> @[c] + ((uvar[c] - @[c]) \div 10)]]]

ReLU(x) ==
    [b \in 1..Len(x) |-> [c \in 1..Len(x[b]) |-> [t \in 1..Len(x[b][c]) |->
        Max2(0, x[b][c][t])]]]

\* Dropout on a rank-3 tensor: p is a percentage, the mask comes from `draw'.
\* Kept elements are scaled by 1 / (1 - p).
F_dropout(x, p, training, draw) ==
    IF ~training \/ p = 0 THEN x
    ELSE [b \in 1..Len(x) |-> [c \in 1..Len(x[b]) |-> [t \in 1..Len(x[b][c]) |->
            IF p >= 100 \/ (b + c + t + draw) % 2 = 1 THEN 0
            ELSE (x[b][c][t] * 100) \div (100 - p)]]]

\* ------------------------------------------------- packed sequences, LSTM
RECURSIVE Flatten(_)
Flatten(ss) == IF ss = <<>> THEN <<>> ELSE ss[1] \o Flatten(Tail(ss))

Reverse(s) == [i \in 1..Len(s) |-> s[Len(s) + 1 - i]]

\* Number of items still running at step t, and each item's length, both
\* read off a packed sequence's batch_sizes.
BatchSizesOf(lengths) ==
    [t \in 1..lengths[1] |-> Cardinality({b \in 1..Len(lengths) : lengths[b] >= t})]

LengthsOf(batch_sizes) ==
    [b \in 1..batch_sizes[1] |->
        Cardinality({t \in 1..Len(batch_sizes) : batch_sizes[t] >= b})]

Offset(batch_sizes, t) == Sum(SubSeq(batch_sizes, 1, t - 1))

\* pack_padded_sequence(x, lengths, batch_first=True), enforce_sorted=True.
\* x is (B, T, C).  The time slices are clamped to T: lengths beyond T leave
\* batch_sizes longer than the data, which the recurrent layer then rejects.
pack_padded_sequence(x, lengths) ==
    IF lengths = None \/ Len(lengths) # Len(x) THEN Err
    ELSE IF \E b \in 1..(Len(lengths) - 1) : lengths[b] < lengths[b + 1] THEN Err
    ELSE IF lengths[Len(lengths)] <= 0 THEN Err
    ELSE LET bs == BatchSizesOf(lengths)
             steps == [t \in 1..Min2(lengths[1], Len(x[1])) |->
                          [b \in 1..bs[t] |-> x[b][t]]]
         IN  Ok([data |-> Flatten(steps), batch_sizes |-> bs])

\* The per-item sequences held by a packed sequence, and their re-packing.
ItemsOf(packed) ==
    LET lens == LengthsOf(packed.batch_sizes)
    IN  [b \in 1..Len(lens) |->
            [t \in 1..lens[b] |-> packed.data[Offset(packed.batch_sizes, t) + b]]]

PackItems(items, batch_sizes) ==
    [data |-> Flatten([t \in 1..Len(batch_sizes) |->
                          [b \in 1..batch_sizes[t] |-> items[b][t]]]),
     batch_sizes |-> batch_sizes]

\* pad_packed_sequence(packed, batch_first=True): (B, max length, C) with
\* zeros after each item's end, and the lengths.
pad_packed_sequence_time_major(packed) ==
    LET bs == packed.batch_sizes
        C == Len(packed.data[1])
    IN  <<[t \in 1..Len(bs) |-> [b \in 1..bs[1] |->
              IF b <= bs[t] THEN packed.data[Offset(bs, t) + b] ELSE Zeros(C)]],
          LengthsOf(bs)>>

pad_packed_sequence(packed) ==
    LET bs == packed.batch_sizes
        C == Len(packed.data[1])
    IN  <<[b \in 1..bs[1] |-> [t \in 1..Len(bs) |->
              IF b <= bs[t] THEN packed.data[Offset(bs, t) + b] ELSE Zeros(C)]],
          LengthsOf(bs)>>

Sat(v) == Max2(-3, Min2(3, v))

\* One direction of one recurrent layer over one item: h_t from x_t and
\* h_{t-1}, starting from the zero state.
RECURSIVE Scan(_, _, _)
Scan(w, xs, hprev) ==
    IF xs = <<>> THEN <<>>
    ELSE LET h == [j \in 1..Len(w.hh) |->
                      Sat(Dot(w.ih[j], xs[1]) + Dot(w.hh[j], hprev))]
         IN  <<h>> \o Scan(w, Tail(xs), h)

\* torch.nn.LSTM(input_size, hidden_size, num_layers, batch_first=True,
\* bidirectional=True): per layer one weight set per direction.
LSTMDir(input_size, hidden_size, draw) ==
    [ih |-> [j \in 1..hidden_size |-> [i \in 1..input_size |-> Rand(draw, j + i)]],
     hh |-> [j \in 1..hidden_size |-> [k \in 1..hidden_size |-> Rand(draw, j + 2 * k)]]]

LSTM(input_size, hidden_size, num_layers, draw) ==
    [l \in 1..num_layers |->
        LET isz == IF l = 1 THEN input_size ELSE 2 * hidden_size
        IN  [kind |-> "LSTM",
             fwd |-> LSTMDir(isz, hidden_size, draw + l),
             bwd |-> LSTMDir(isz, hidden_size, draw + l + 1)]]

\* Output width of the bidirectional stack: both directions concatenated.
LSTMOutWidth(blstm) == 2 * Len(blstm[Len(blstm)].fwd.hh)

LSTMLayer(layer, items) ==
    [b \in 1..Len(items) |->
        LET f == Scan(layer.fwd, items[b], Zeros(Len(layer.fwd.hh)))
            r == Reverse(Scan(layer.bwd, Reverse(items[b]), Zeros(Len(layer.bwd.hh))))
        IN  [t \in 1..Len(items[b]) |-> f[t] \o r[t]]]

RECURSIVE LSTMStack(_, _, _)
LSTMStack(blstm, l, items) ==
    IF l > Len(blstm) THEN items
    ELSE LSTMStack(blstm, l + 1, LSTMLayer(blstm[l], items))

\* self.blstm(packed): rejects a packed sequence whose data does not cover
\* its batch_sizes or whose feature width is not the layer's input size.
LSTMForward(blstm, packed) ==
    IF Sum(packed.batch_sizes) # Len(packed.data) THEN Err
    ELSE IF Len(packed.data[1]) # Len(blstm[1].fwd.ih[1]) THEN Err
    ELSE Ok(PackItems(LSTMStack(blstm, 1, ItemsOf(packed)), packed.batch_sizes))

\* ------------------------------------------------------------------ Encoder
\* encoder_init(m): re-draws the weight of a Conv1d, leaves any other module.
encoder_init_weights(m, draw) ==
    IF m.kind = "Conv1d" THEN [m EXCEPT !.weight = XavierWeight(@, draw)]
    ELSE IF m.kind = "Embedding"
    THEN [m EXCEPT !.weight = [i \in 1..Len(@) |-> [c \in 1..Len(@[i]) |->
                                  Rand(draw + 1, i + c) + 2]]]
    ELSE m

encoder_init(m, draw) ==
    IF m.kind = "Conv1d" THEN [m EXCEPT !.weight = XavierWeight(@, draw)] ELSE m

\* The padding of every convolution: (econv_filts - 1) // 2.
ConvPaddingHalf(econv_filts) == econv_filts \div 2

ConvPadding(econv_filts) == (econv_filts - 1) \div 2

\* Hidden size of each direction of the recurrent stage: eunits // 2.
HiddenSize(eunits) == eunits \div 2

\* Encoder.__init__: the instance holds idim, use_residual, the embedding,
\* the list of convolution blocks (None when econv_layers <= 0) and the
\* recurrent stage (None when elayers <= 0); self.apply(encoder_init) then
\* visits every submodule.  A new module is in training mode.
Encoder_init(a, draw) ==
    LET embed == [kind |-> "Embedding",
                  weight |-> Embedding(a.idim, a.embed_dim, a.padding_idx, draw),
                  padding_idx |-> a.padding_idx]
        convs == IF a.econv_layers > 0
                 THEN [layer \in 1..a.econv_layers |->
                        LET ichans == IF layer = 1 THEN a.embed_dim ELSE a.econv_chans
                        IN  [conv |-> [kind |-> "Conv1d",
                                       weight |-> ConvWeight(ichans, a.econv_chans,
                                                             a.econv_filts, draw + layer),
                                       padding |-> ConvPadding(a.econv_filts)],
                             use_batch_norm |-> a.use_batch_norm,
                             bn |-> BatchNormNew(a.econv_chans),
                             p |-> a.dropout_rate]]
                 ELSE None
        blstm == IF a.elayers > 0
                 THEN LET iunits == IF a.econv_layers # 0 THEN a.econv_chans
                                    ELSE a.embed_dim
                      IN  LSTM(iunits, HiddenSize(a.eunits), a.elayers, draw)
                 ELSE None
    IN  [idim |-> a.idim,
         use_residual |-> a.use_residual,
         embed |-> encoder_init(embed, draw),
         convs |-> [l \in 1..Len(convs) |->
                      [convs[l] EXCEPT !.conv = encoder_init(@, draw + l),
                                       !.bn = encoder_init(@, draw + l)]],
         blstm |-> [l \in 1..Len(blstm) |-> encoder_init(blstm[l], draw)],
         training |-> TRUE]

\* One block of self.convs: Conv1d, BatchNorm1d (if built with it), ReLU,
\* Dropout.  Returns [ok, v, block]: block is the block's state afterwards.
\* (Only({e : x \in {d}}) is LET x == d IN e with d evaluated once.)
ConvBlockTrackingAlways(block, training, x, draw) ==
    Only({ IF ~c.ok THEN [ok |-> FALSE, v |-> <<>>, block |-> block]
           ELSE Only({ IF ~n.ok
                       THEN [ok |-> FALSE, v |-> <<>>, block |-> [block EXCEPT !.bn = n.bn]]
                       ELSE [ok |-> TRUE,
                             v |-> F_dropout(ReLU(n.v), block.p, training, draw),
                             block |-> [block EXCEPT !.bn = n.bn]] :
                       n \in { IF block.use_batch_norm
                               THEN BatchNorm1d(block.bn, TRUE, c.v)
                               ELSE [ok |-> TRUE, v |-> c.v, bn |-> block.bn] } }) :
           c \in { Conv1d(block.conv.weight, block.conv.padding, x) } })

ConvBlock(block, training, x, draw) ==
    Only({ IF ~c.ok THEN [ok |-> FALSE, v |-> <<>>, block |-> block]
           ELSE Only({ IF ~n.ok
                       THEN [ok |-> FALSE, v |-> <<>>, block |-> [block EXCEPT !.bn = n.bn]]
                       ELSE [ok |-> TRUE,
                             v |-> F_dropout(ReLU(n.v), block.p, training, draw),
                             block |-> [block EXCEPT !.bn = n.bn]] :
                       n \in { IF block.use_batch_norm
                               THEN BatchNorm1d(block.bn, training, c.v)
                               ELSE [ok |-> TRUE, v |-> c.v, bn |-> block.bn] } }) :
           c \in { Conv1d(block.conv.weight, block.conv.padding, x) } })

\* xs += y on (B, C, T) tensors: y must broadcast to the shape of xs.
IAdd(xs, y) ==
    LET C == Len(xs[1])
        T == Len(xs[1][1])
        Cy == Len(y[1])
        Ty == Len(y[1][1])
    IN  IF (Cy # C /\ Cy # 1) \/ (Ty # T /\ Ty # 1) THEN Err
        ELSE Ok([b \in 1..Len(xs) |-> [c \in 1..C |-> [t \in 1..T |->
                xs[b][c][t] + y[b][IF Cy = 1 THEN 1 ELSE c][IF Ty = 1 THEN 1 ELSE t]]]])

\* The body of forward's loop for block l (1-based): [ok, v, enc].
BlockStepPlain(enc, l, xs, draw) ==
    Only({ [ok |-> r.ok, v |-> r.v, enc |-> [enc EXCEPT !.convs[l] = r.block]] :
           r \in { ConvBlock(enc.convs[l], enc.training, xs, draw + l) } })

BlockStep(enc, l, xs, draw) ==
    Only({ IF ~r.ok
           THEN [ok |-> FALSE, v |-> <<>>, enc |-> [enc EXCEPT !.convs[l] = r.block]]
           ELSE IF enc.use_residual
           THEN Only({ [ok |-> s.ok, v |-> s.v, enc |-> [enc EXCEPT !.convs[l] = r.block]] :
                       s \in { IAdd(xs, r.v) } })
           ELSE [ok |-> TRUE, v |-> r.v, enc |-> [enc EXCEPT !.convs[l] = r.block]] :
           r \in { ConvBlock(enc.convs[l], enc.training, xs, draw + l) } })

\* forward's loop over self.convs from block l on.  states collects the
\* running representation: the loop's input and its value after each block.
RECURSIVE ConvLoop(_, _, _, _, _)
ConvLoop(enc, l, xs, draw, states) ==
    IF l > Len(enc.convs)
    THEN [ok |-> TRUE, v |-> xs, enc |-> enc, states |-> states]
    ELSE Only({ IF ~r.ok
                THEN [ok |-> FALSE, v |-> <<>>, enc |-> r.enc, states |-> states]
                ELSE ConvLoop(r.enc, l + 1, r.v, draw, Append(states, r.v)) :
                r \in { BlockStep(enc, l, xs, draw) } })

\* The rest of forward once the convolutions are done.
ForwardTailNoTranspose(enc, xs, ilens) ==
    IF enc.blstm = None THEN Ok(xs)
    ELSE Only({ IF ~p.ok THEN Err
                ELSE Only({ IF ~h.ok THEN Err ELSE Ok(pad_packed_sequence(h.v)) :
                            h \in { LSTMForward(enc.blstm, p.v) } }) :
                p \in { pack_padded_sequence(Transpose12(xs), ilens) } })

ForwardTail(enc, xs, ilens) ==
    IF enc.blstm = None THEN Ok(Transpose12(xs))
    ELSE Only({ IF ~p.ok THEN Err
                ELSE Only({ IF ~h.ok THEN Err ELSE Ok(pad_packed_sequence(h.v)) :
                            h \in { LSTMForward(enc.blstm, p.v) } }) :
                p \in { pack_padded_sequence(Transpose12(xs), ilens) } })

\* Shape of a rank-3 tensor.
Shape3(x) == <<Len(x), Len(x[1]), Len(x[1][1])>>

\* Encoder.forward(xs, ilens): [ok, v, tuple, shape, enc, states].  v is the
\* returned value: the tensor (B, T, C) without a recurrent stage
\* (tuple = FALSE), the pair <<hidden states, hlens>> with one (tuple = TRUE);
\* shape is the shape of the hidden-state tensor in v.  enc is the instance
\* afterwards.
Encoder_forward(enc, xs, ilens, draw) ==
    Only({ IF ~e.ok
           THEN [ok |-> FALSE, v |-> <<>>, tuple |-> FALSE, shape |-> <<>>,
                 enc |-> enc, states |-> <<>>]
           ELSE Only({ IF ~c.ok
                       THEN [ok |-> FALSE, v |-> <<>>, tuple |-> FALSE, shape |-> <<>>,
                             enc |-> c.enc, states |-> c.states]
                       ELSE Only({ [ok |-> r.ok, v |-> r.v,
                                    tuple |-> r.ok /\ enc.blstm # None,
                                    shape |-> IF ~r.ok THEN <<>>
                                              ELSE IF enc.blstm # None THEN Shape3(r.v[1])
                                              ELSE Shape3(r.v),
                                    enc |-> c.enc, states |-> c.states] :
                                   r \in { ForwardTail(c.enc, c.v, ilens) } }) :
                       c \in { IF enc.convs # None
                               THEN ConvLoop(enc, 1, Transpose12(e.v), draw,
                                             <<Transpose12(e.v)>>)
                               ELSE [ok |-> TRUE, v |-> Transpose12(e.v), enc |-> enc,
                                     states |-> <<Transpose12(e.v)>>] } }) :
           e \in { EmbedLookup(enc.embed.weight, xs) } })

\* r[0] on a returned value: the first member of a pair, else the first
\* slice of a tensor (its leading dimension goes).
Index0(r) ==
    [r EXCEPT !.v = r.v[1],
              !.shape = IF r.tuple THEN r.shape ELSE Tail(r.shape),
              !.tuple = FALSE]

\* Encoder.inference(x): forward on the batch of one, then [0][0].
Encoder_inference(enc, x, draw) ==
    Only({ IF ~r.ok THEN r ELSE Index0(Index0(r)) :
           r \in { Encoder_forward(enc, <<x>>, <<Len(x)>>, draw) } })

\* ------------------------------------------------------------------- Prenet
\* torch.nn.Linear(n_inputs, n_units): weight (n_units, n_inputs) and bias.
Linear(n_inputs, n_units, draw) ==
    [kind |-> "Linear",
     weight |-> [j \in 1..n_units |-> [i \in 1..n_inputs |-> Rand(draw, j + i) + 1]],
     bias |-> [j \in 1..n_units |-> 1]]

\* Linear.forward on x (B, T, n_inputs): the last dimension must match.
LinearForward(m, x) ==
    IF Len(x[1][1]) # Len(m.weight[1]) THEN Err
    ELSE Ok([b \in 1..Len(x) |-> [t \in 1..Len(x[b]) |-> [j \in 1..Len(m.weight) |->
            Dot(m.weight[j], x[b][t]) + m.bias[j]]]])

\* Prenet.__init__: dropout_rate and the list of Linear + ReLU layers.
Prenet_init(a, draw) ==
    [dropout_rate |-> a.dropout_rate,
     prenet |-> [layer \in 1..a.n_layers |->
                    Linear(IF layer = 1 THEN a.idim ELSE a.n_units, a.n_units,
                           draw + layer)],
     training |-> TRUE]

\* The dropout call of Prenet.forward: F.dropout(y, self.dropout_rate), whose
\* training argument is left at its default, True.
PrenetDropoutByMode(pre, y, draw) == F_dropout(y, pre.dropout_rate, pre.training, draw)

PrenetDropout(pre, y, draw) == F_dropout(y, pre.dropout_rate, TRUE, draw)

\* Prenet.forward(x) from layer l on: [ok, v, acts, outs]; acts are the
\* layers' activations before dropout, outs what each layer passed on.
RECURSIVE PrenetLoop(_, _, _, _, _, _)
PrenetLoop(pre, l, x, draw, acts, outs) ==
    IF l > Len(pre.prenet)
    THEN [ok |-> TRUE, v |-> x, acts |-> acts, outs |-> outs]
    ELSE LET y == LinearForward(pre.prenet[l], x)
             a == ReLU(y.v)
             d == PrenetDropout(pre, a, draw + l)
         IN  IF ~y.ok THEN [ok |-> FALSE, v |-> <<>>, acts |-> acts, outs |-> outs]
             ELSE PrenetLoop(pre, l + 1, d, draw, Append(acts, a), Append(outs, d))

Prenet_forward(pre, x, draw) == PrenetLoop(pre, 1, x, draw, <<>>, <<>>)

\* ------------------------------------------------------------ state machine
VARIABLES
    args,      \* the constructor arguments the Encoder was built from
    enc,       \* the Encoder instance: parameters, buffers, mode
    call,      \* the pending forward / inference call and what it returned
    updates,   \* number of external gradient updates applied to enc
    threads,   \* concurrent forward evaluations on enc, one record per thread
    pargs,     \* the constructor arguments the Prenet was built from
    pre,       \* the Prenet instance
    pcall      \* the pending Prenet.forward call and what it returned

vars == <<args, enc, call, updates, threads, pargs, pre, pcall>>

\* Constructor arguments.  With no convolution block the block arguments
\* are never read and are left at one value, and so is eunits with no
\* recurrent layer.
Args ==
    { a \in [idim : {Cardinality(Ids)}, embed_dim : EmbedDims, elayers : LstmLayers,
             eunits : LstmUnits, econv_layers : ConvLayers, econv_chans : ConvChans,
             econv_filts : ConvFilts, use_batch_norm : BOOLEAN,
             use_residual : BOOLEAN, dropout_rate : DropoutRates,
             padding_idx : {0}] :
        /\ a.econv_layers = 0 =>
              /\ a.econv_chans = 1 /\ a.econv_filts = 1
              /\ a.use_batch_norm /\ ~a.use_residual
        /\ a.elayers = 0 => a.eunits = 2 }

DefaultArgs == CHOOSE a \in Args : a.econv_layers = 0 /\ a.elayers = 0 /\ a.embed_dim = 1

PrenetArgs ==
    [idim : PrenetDims, n_layers : PrenetLayers, n_units : PrenetDims,
     dropout_rate : PrenetRates]

DefaultPrenetArgs == CHOOSE a \in PrenetArgs : a.n_layers = 0 /\ a.idim = 1 /\ a.n_units = 1

Batches ==
    UNION { [1..B -> [1..T -> Ids]] : <<B, T>> \in BatchSizes \X (1..MaxT) }

LengthVectors(B) == {None} \cup [1..B -> 1..MaxT]

Sequences1 == UNION { [1..T -> Ids] : T \in 1..MaxT }

PrenetInputs(idim) == UNION { [1..1 -> [1..T -> [1..idim -> {1, 2}]]] : T \in 1..MaxT }

NoCall(e) ==
    [op |-> "none", xs |-> <<>>, ilens |-> <<>>, draw |-> 0, ok |-> FALSE,
     v |-> <<>>, tuple |-> FALSE, shape |-> <<>>, states |-> <<>>, enc0 |-> e]

NoPCall ==
    [op |-> "none", x |-> <<>>, draw |-> 0, training |-> TRUE, ok |-> FALSE,
     v |-> <<>>, acts |-> <<>>, outs |-> <<>>]

Threads == {1, 2}

IdleThread(e) ==
    [pc |-> "idle", l |-> 0, cur |-> <<>>, xs |-> <<>>, ilens |-> <<>>, draw |-> 0,
     enc0 |-> e, ok |-> FALSE, v |-> <<>>]

InitEncoder(S) ==
    \E a \in S :
        /\ args = a
        /\ enc = Encoder_init(a, 0)
        /\ call = NoCall(enc)
        /\ updates = 0
        /\ threads = [t \in Threads |-> IdleThread(enc)]

InitPrenet(S) ==
    \E a \in S :
        /\ pargs = a
        /\ pre = Prenet_init(a, 0)
        /\ pcall = NoPCall

Init == InitEncoder(Args) /\ InitPrenet({DefaultPrenetArgs})

\* Draws a call can consume: the Encoder draws dropout masks only in
\* training mode.
CallDraws == IF enc.training THEN Draws ELSE {0}

\* The BatchNorm counters stay within their cap.
CanTrack(cap) ==
    enc.training =>
        \A l \in 1..Len(enc.convs) :
            enc.convs[l].use_batch_norm =>
                enc.convs[l].bn.num_batches_tracked < cap

Forward ==
    /\ call.op = "none"
    /\ CanTrack(MaxTracked)
    /\ \E xs \in Batches : \E ilens \in LengthVectors(Len(xs)) : \E draw \in CallDraws :
        \E r \in {Encoder_forward(enc, xs, ilens, draw)} :
            /\ enc' = r.enc
            /\ call' = [op |-> "forward", xs |-> xs, ilens |-> ilens, draw |-> draw,
                        ok |-> r.ok, v |-> r.v, tuple |-> r.tuple, shape |-> r.shape,
                        states |-> r.states, enc0 |-> enc]
            /\ UNCHANGED <<args, updates, threads, pargs, pre, pcall>>

Inference ==
    /\ call.op = "none"
    /\ CanTrack(MaxTracked)
    /\ \E x \in Sequences1 : \E draw \in CallDraws :
        \E r \in {Encoder_inference(enc, x, draw)} :
            /\ enc' = r.enc
            /\ call' = [op |-> "inference", xs |-> <<x>>, ilens |-> <<Len(x)>>,
                        draw |-> draw, ok |-> r.ok, v |-> r.v, tuple |-> r.tuple,
                        shape |-> r.shape, states |-> r.states, enc0 |-> enc]
            /\ UNCHANGED <<args, updates, threads, pargs, pre, pcall>>

\* The caller takes the returned value; the instance is idle again.
Return ==
    /\ call.op # "none"
    /\ call' = NoCall(enc)
    /\ UNCHANGED <<args, enc, updates, threads, pargs, pre, pcall>>

\* Module.train() / Module.eval(), called by the owner between calls.
Train ==
    /\ call.op = "none"
    /\ \A t \in Threads : threads[t].pc = "idle"
    /\ ~enc.training
    /\ enc' = [enc EXCEPT !.training = TRUE]
    /\ call' = NoCall(enc')
    /\ threads' = [t \in Threads |-> IdleThread(enc')]
    /\ UNCHANGED <<args, updates, pargs, pre, pcall>>

Eval ==
    /\ call.op = "none"
    /\ \A t \in Threads : threads[t].pc = "idle"
    /\ enc.training
    /\ enc' = [enc EXCEPT !.training = FALSE]
    /\ call' = NoCall(enc')
    /\ threads' = [t \in Threads |-> IdleThread(enc')]
    /\ UNCHANGED <<args, updates, pargs, pre, pcall>>

Next == Forward \/ Inference \/ Return \/ Train \/ Eval

Spec == Init /\ [][Next]_vars

\* ------------------------------------------- external training of the Encoder
\* Gradient of the embedding table for the batch xs: a row's gradient sums
\* the upstream gradient g over the positions holding its id; the row of
\* padding_idx gets no gradient.
EmbeddingGrad(embed, xs, g) ==
    [i \in 1..Len(embed.weight) |-> [c \in 1..Len(embed.weight[i]) |->
        IF i = embed.padding_idx + 1 THEN 0
        ELSE g * Cardinality({bt \in (1..Len(xs)) \X (1..Len(xs[1])) :
                                 xs[bt[1]][bt[2]] = i - 1})]]

Sign(v) == IF v > 0 THEN 1 ELSE IF v < 0 THEN -1 ELSE 0

\* One optimiser step after a training-mode forward: every embedding weight
\* moves one unit against the sign of its gradient.
GradUpdate ==
    \E g \in {-1, 1} :
        /\ call.op = "forward" /\ call.ok /\ enc.training
        /\ updates < MaxUpdates
        /\ LET grad == EmbeddingGrad(enc.embed, call.xs, g)
           IN  enc' = [enc EXCEPT !.embed.weight =
                          [i \in 1..Len(@) |-> [c \in 1..Len(@[i]) |->
                              @[i][c] - Sign(grad[i][c])]]]
        /\ updates' = updates + 1
        /\ call' = NoCall(enc')
        /\ UNCHANGED <<args, threads, pargs, pre, pcall>>

TrainArgs ==
    { a \in Args : a.econv_layers <= 1 /\ a.econv_filts # 2 /\ a.eunits = 2 }

InitTrain == InitEncoder(TrainArgs) /\ InitPrenet({DefaultPrenetArgs})

NextTrain == Forward \/ Inference \/ Return \/ Train \/ Eval \/ GradUpdate

SpecTrain == InitTrain /\ [][NextTrain]_vars

\* ------------------------------------------------ concurrent forward calls
\* Each thread runs Encoder.forward on the shared instance one stage at a
\* time: embedding, then one convolution block per step, then the rest.
Active(t) == threads[t].pc # "idle"

\* The BatchNorm counters stay within their cap once the calls under way
\* have run the blocks they still have to run.
CanTrackWith(cap) ==
    enc.training =>
        \A l \in 1..Len(enc.convs) :
            enc.convs[l].use_batch_norm =>
                enc.convs[l].bn.num_batches_tracked
                  + Cardinality({u \in Threads : threads[u].pc = "conv" /\ threads[u].l <= l})
                  < cap

TBegin(t) ==
    \E x \in Sequences1 : \E draw \in CallDraws :
        LET e == EmbedLookup(enc.embed.weight, <<x>>)
        IN  /\ call.op = "none"
            /\ ~Active(t)
            /\ CanTrackWith(MaxConcTracked)
            /\ threads' = [threads EXCEPT ![t] =
                   [pc |-> IF enc.convs # None THEN "conv" ELSE "tail",
                    l |-> 1, cur |-> Transpose12(e.v), xs |-> <<x>>,
                    ilens |-> <<Len(x)>>, draw |-> draw, enc0 |-> enc,
                    ok |-> TRUE, v |-> <<>>]]
            /\ UNCHANGED <<args, enc, call, updates, pargs, pre, pcall>>

TBlock(t) ==
    LET th == threads[t]
        r == BlockStep(enc, th.l, th.cur, th.draw)
    IN  /\ th.pc = "conv"
        /\ enc' = r.enc
        /\ threads' = [threads EXCEPT ![t] =
               IF ~r.ok THEN [th EXCEPT !.pc = "done", !.ok = FALSE, !.cur = <<>>]
               ELSE [th EXCEPT !.pc = IF th.l = Len(enc.convs) THEN "tail" ELSE "conv",
                               !.l = th.l + 1, !.cur = r.v]]
        /\ UNCHANGED <<args, call, updates, pargs, pre, pcall>>

TTail(t) ==
    LET th == threads[t]
        r == ForwardTail(enc, th.cur, th.ilens)
    IN  /\ th.pc = "tail"
        /\ threads' = [threads EXCEPT ![t] =
               [th EXCEPT !.pc = "done", !.ok = r.ok, !.v = r.v, !.cur = <<>>]]
        /\ UNCHANGED <<args, enc, call, updates, pargs, pre, pcall>>

TReturn(t) ==
    /\ threads[t].pc = "done"
    /\ threads' = [threads EXCEPT ![t] = IdleThread(enc)]
    /\ UNCHANGED <<args, enc, call, updates, pargs, pre, pcall>>

ConcArgs ==
    { a \in Args : /\ a.embed_dim = 2 /\ a.econv_chans = 2 /\ a.econv_filts = 3
                   /\ a.econv_layers >= 1 /\ a.eunits = 2 }

InitConc == InitEncoder(ConcArgs) /\ InitPrenet({DefaultPrenetArgs})

NextConc ==
    \/ \E t \in Threads : TBegin(t)
    \/ \E t \in Threads : TBlock(t)
    \/ \E t \in Threads : TTail(t)
    \/ \E t \in Threads : TReturn(t)
    \/ Train
    \/ Eval

SpecConc == InitConc /\ [][NextConc]_vars

\* ------------------------------------------------------------ Prenet machine
PForward ==
    /\ pcall.op = "none"
    /\ \E x \in PrenetInputs(pargs.idim) : \E draw \in Draws :
        \E r \in {Prenet_forward(pre, x, draw)} :
            /\ pcall' = [op |-> "forward", x |-> x, draw |-> draw,
                         training |-> pre.training, ok |-> r.ok, v |-> r.v,
                         acts |-> r.acts, outs |-> r.outs]
            /\ UNCHANGED <<args, enc, call, updates, threads, pargs, pre>>

PReturn ==
    /\ pcall.op # "none"
    /\ pcall' = NoPCall
    /\ UNCHANGED <<args, enc, call, updates, threads, pargs, pre>>

PTrain ==
    /\ pcall.op = "none"
    /\ ~pre.training
    /\ pre' = [pre EXCEPT !.training = TRUE]
    /\ UNCHANGED <<args, enc, call, updates, threads, pargs, pcall>>

PEval ==
    /\ pcall.op = "none"
    /\ pre.training
    /\ pre' = [pre EXCEPT !.training = FALSE]
    /\ UNCHANGED <<args, enc, call, updates, threads, pargs, pcall>>

InitP == InitEncoder({DefaultArgs}) /\ InitPrenet(PrenetArgs)

NextPrenet == PForward \/ PReturn \/ PTrain \/ PEval

SpecPrenet == InitP /\ [][NextPrenet]_vars

\* ------------------------------------------------------------------ claims
IsCall == call.op \in {"forward", "inference"}

CallB == Len(call.xs)

CallT == Len(call.xs[1])

\* The hidden-state tensor (B, T, C) in a value returned by forward.
Hidden(r) == IF r.tuple THEN r.v[1] ELSE r.v

Odd(n) == n % 2 = 1

\* C1: inference(x) returns the whole hidden-state sequence that
\* forward([x], [T]) produces for batch item 0 (all T timestep vectors, only
\* the batch dimension and the length output dropped), for every
\* configuration, with or without a recurrent stage, under the same draws.
C1_InferenceIsForwardItem0 ==
    (call.op = "inference" /\ call.ok) =>
        \A f \in {Encoder_forward(call.enc0, call.xs, call.ilens, call.draw)} :
            /\ f.ok
            /\ call.shape = Tail(f.shape)
            /\ call.v = Hidden(f)[1]

\* What block k returns on the running representation it was given, and the
\* sum of the two (the block's output broadcast where it has one channel or
\* one timestep).
BlockOut(k) ==
    ConvBlock(call.enc0.convs[k], call.enc0.training, call.states[k], call.draw + k).v

Accumulated(k) ==
    \* state_{k-1} + block_k(state_{k-1})
    Only({ [b \in 1..Len(call.states[k]) |->
              [c \in 1..Len(call.states[k][b]) |->
                 [t \in 1..Len(call.states[k][b][c]) |->
                    call.states[k][b][c][t]
                      + y[b][IF Len(y[b]) = 1 THEN 1 ELSE c]
                            [IF Len(y[b][1]) = 1 THEN 1 ELSE t]]]] :
           y \in {BlockOut(k)} })

EmbeddedInput == Transpose12([b \in 1..CallB |-> [t \in 1..CallT |->
                     call.enc0.embed.weight[call.xs[b][t] + 1]]])

\* C2 as stated, in evaluation mode and with an odd kernel width: with
\* use_residual and econv_layers >= 1, for any embed_dim and econv_chans, every
\* block completes and leaves state_k = state_{k-1} + block_k(state_{k-1}).
C2_ResidualCompletesForAnyWidths ==
    (IsCall /\ args.use_residual /\ args.econv_layers >= 1
        /\ ~call.enc0.training /\ Odd(args.econv_filts)) =>
        /\ Len(call.states) = args.econv_layers + 1
        /\ \A k \in 1..args.econv_layers : call.states[k + 1] = Accumulated(k)

\* C2 amended: with use_residual and econv_layers >= 1 the blocks run in index
\* order from state_0, the transposed embedding output, and every block k that
\* completes leaves state_k = state_{k-1} + block_k(state_{k-1}); every block
\* completes when embed_dim = econv_chans, econv_filts is odd and batch
\* normalisation in training mode sees more than one value per channel.
C2_ResidualAccumulates ==
    (IsCall /\ args.use_residual /\ args.econv_layers >= 1) =>
        /\ Len(call.states) >= 1
        /\ call.states[1] = EmbeddedInput
        /\ \A k \in 1..(Len(call.states) - 1) : call.states[k + 1] = Accumulated(k)
        /\ ( /\ args.embed_dim = args.econv_chans
             /\ Odd(args.econv_filts)
             /\ ~(call.enc0.training /\ args.use_batch_norm /\ CallB * CallT <= 1) )
           => Len(call.states) = args.econv_layers + 1

C2_Witness ==
    /\ call.op = "forward" /\ call.ok
    /\ args.use_residual /\ args.econv_layers = 2
    /\ Len(call.states) = 3
    /\ call.states[2] # call.states[1]
    /\ call.states[3] # call.states[2]
    /\ call.states[3] # BlockOut(2)

\* C3: in Prenet.forward dropout at the configured probability is applied
\* after every layer's activation on every call, in training and in
\* evaluation mode alike: what each layer passes on is its activation with
\* the dropout mask applied, and a call applies dropout n_layers times.
C3_PrenetAlwaysDropsOut ==
    (pcall.op = "forward") =>
        /\ pcall.ok
        /\ Len(pcall.outs) = pargs.n_layers
        /\ Len(pcall.acts) = pargs.n_layers
        /\ \A l \in 1..Len(pcall.outs) :
              pcall.outs[l] =
                  F_dropout(pcall.acts[l], pargs.dropout_rate, TRUE, pcall.draw + l)
        /\ pargs.n_layers >= 1 => pcall.v = pcall.outs[pargs.n_layers]

C3_Witness ==
    /\ pcall.op = "forward" /\ pcall.ok
    /\ ~pcall.training
    /\ pargs.n_layers = 2 /\ pargs.dropout_rate = 50
    /\ pcall.outs[1] # pcall.acts[1]
    /\ pcall.outs[2] # pcall.acts[2]

\* C4: the embedding row of the padding id is the zero vector after
\* construction (encoder_init included) and after any forward calls and
\* gradient updates, so every position holding the padding id is embedded as
\* the zero vector.
C4_PaddingRowStaysZero ==
    /\ enc.embed.weight[enc.embed.padding_idx + 1] = Zeros(args.embed_dim)
    /\ (IsCall /\ Len(call.states) >= 1) =>
          \A b \in 1..CallB : \A t \in 1..CallT :
              call.xs[b][t] = args.padding_idx =>
                  \A c \in 1..args.embed_dim : call.states[1][b][c][t] = 0

C4_Witness ==
    /\ updates >= 1
    /\ call.op = "forward" /\ call.ok
    /\ enc.embed.weight # Encoder_init(args, 0).embed.weight
    /\ \E b \in 1..CallB : \E t \in 1..CallT : call.xs[b][t] = args.padding_idx

\* C5: with a recurrent stage the hidden-state vectors of every constructed
\* Encoder are eunits wide: no instance has a bidirectional output width
\* other than eunits (an odd eunits being rejected at construction).
C5_OutputWidthIsEunits ==
    /\ args.elayers > 0 => LSTMOutWidth(enc.blstm) = args.eunits
    /\ (call.op = "forward" /\ call.ok /\ call.tuple) => call.shape[3] = args.eunits

\* Stored state of the instance without the BatchNorm running statistics.
WithoutStats(e) ==
    [e EXCEPT !.convs = [l \in 1..Len(e.convs) |->
                            [e.convs[l] EXCEPT !.bn = BatchNormNew(Len(@.running_mean))]]]

C7_FullLengthsReturned ==
    (call.op = "forward" /\ call.ok /\ call.enc0.blstm # None
        /\ \A b \in 1..CallB : call.ilens[b] = CallT) =>
        /\ call.tuple
        /\ call.v[2] = call.ilens
        /\ call.shape[1] = CallB
        /\ call.shape[2] = CallT
        /\ \A b \in 1..CallB : Len(call.v[1][b]) = CallT

C7_Witness ==
    /\ call.op = "forward" /\ call.ok /\ call.enc0.blstm # None
    /\ args.econv_layers = 2
    /\ CallB = 2 /\ CallT = 2
    /\ call.ilens = <<2, 2>>

\* C8: with econv_layers = 0 and elayers = 0, forward returns for any lengths
\* argument (none included) the single tensor of embedded ids in
\* (batch, time, embed_dim) layout, and no length vector.
C8_EmbeddingOnly ==
    (call.op = "forward" /\ args.econv_layers = 0 /\ args.elayers = 0) =>
        /\ call.ok
        /\ ~call.tuple
        /\ call.shape = <<CallB, CallT, args.embed_dim>>
        /\ call.v = [b \in 1..CallB |-> [t \in 1..CallT |->
                        enc.embed.weight[call.xs[b][t] + 1]]]

C8_Witness ==
    /\ call.op = "forward" /\ call.ok
    /\ args.econv_layers = 0 /\ args.elayers = 0
    /\ call.ilens = None
    /\ CallB = 2 /\ CallT = 2 /\ args.embed_dim = 1
    /\ call.xs[1] # call.xs[2]

\* Number of timesteps of a channel-first tensor (B, C, T).
TimeLen(x) == Len(x[1][1])

\* C9 as stated: every convolution block preserves the length, for every
\* kernel width, odd or even: after any number of blocks the time dimension
\* is still Tmax.
C9_EveryWidthPreservesLength ==
    IsCall => \A k \in 1..Len(call.states) : TimeLen(call.states[k]) = CallT

\* C9 amended: a block with an odd kernel width accepts every length T >= 1
\* and preserves it, so after any number of such blocks the time dimension
\* handed on is Tmax; a block with an even kernel width returns one timestep
\* fewer than it got.
C9_OddWidthPreservesLength ==
    IsCall =>
        /\ Odd(args.econv_filts) =>
              \A k \in 1..Len(call.states) : TimeLen(call.states[k]) = CallT
        /\ (~Odd(args.econv_filts) /\ ~args.use_residual) =>
              \A k \in 2..Len(call.states) :
                  TimeLen(call.states[k]) = TimeLen(call.states[k - 1]) - 1
        /\ ( /\ Odd(args.econv_filts)
             /\ args.use_residual => args.embed_dim = args.econv_chans
             /\ ~(call.enc0.training /\ args.use_batch_norm /\ CallB * CallT <= 1) )
           => Len(call.states) = args.econv_layers + 1
        /\ (call.ok /\ call.tuple /\ Odd(args.econv_filts)) => call.shape[2] <= CallT

C9_Witness ==
    /\ call.op = "forward" /\ call.ok /\ call.tuple
    /\ args.econv_filts = 3 /\ args.econv_layers = 2 /\ ~args.use_residual
    /\ CallT = 2 /\ CallB = 2
    /\ Len(call.states) = 3

\* Positions after an item's length hold the padding id.
ProperlyPadded ==
    \A b \in 1..CallB : \A t \in 1..CallT :
        t > call.ilens[b] => call.xs[b][t] = args.padding_idx

\* Item b of the batch run alone, unpadded, with its own length.
Alone(b) ==
    Encoder_forward(call.enc0, <<SubSeq(call.xs[b], 1, call.ilens[b])>>,
                    <<call.ilens[b]>>, call.draw)

PaddingIgnoredFor(b) ==
    \A f \in {Alone(b)} :
        f.ok => \A t \in 1..call.ilens[b] : call.v[1][b][t] = f.v[1][1][t]

EvalCallWithLengths ==
    /\ call.op = "forward" /\ call.ok /\ call.tuple
    /\ ~call.enc0.training
    /\ ProperlyPadded

\* C10 as stated: in evaluation mode, with any number of convolution blocks
\* and a recurrent stage, the hidden states of item i below its length L_i
\* are those of the item run alone, unpadded.
C10_PaddingNeverInfluences ==
    EvalCallWithLengths => \A b \in 1..CallB : PaddingIgnoredFor(b)

\* C10 amended: the same, for encoders with at most one convolution block or
\* kernel width 1, whenever the run of the item alone succeeds.
C10_PaddingIgnoredUpToOneBlock ==
    (EvalCallWithLengths /\ (args.econv_layers <= 1 \/ args.econv_filts = 1)) =>
        \A b \in 1..CallB : PaddingIgnoredFor(b)

C10_Witness ==
    /\ EvalCallWithLengths
    /\ args.econv_layers = 1 /\ args.econv_filts = 3
    /\ CallB = 2 /\ call.ilens = <<2, 1>>
    /\ call.xs[2][1] # args.padding_idx
    /\ Alone(2).ok
    /\ \E c \in 1..call.shape[3] : call.v[1][2][1][c] # 0

====
